---- MODULE Spec2Model ----
(***************************************************************************)
(* Model of torch/_inductor/cpu_vec_isa.py: detection, dry-compile         *)
(* verification and selection of the CPU vector ISA.                       *)
(*                                                                         *)
(* Worker processes share one cache directory (probe sources, compiled     *)
(* artifacts, lock files).  Each process owns its lru_cache memos.  A      *)
(* process performs top-level calls pick_vec_isa() and bool(isa); the      *)
(* calls run to completion except inside check_build, whose file-system    *)
(* steps interleave with the other processes and with a compiler upgrade.  *)
(***************************************************************************)
EXTENDS Integers, Sequences, FiniteSets, TLC

(* ------------------------------ bounds -------------------------------- *)

\* pick_vec_isa() calls one process makes
MaxPicks == 2

\* direct bool(isa) evaluations one process makes
MaxEvals == 2

\* compiler versions installed over time (1 .. MaxVersion)
MaxVersion == 2

(* --------------------------- option values ---------------------------- *)

\* Python's Optional[x] is a set with at most one element: {} is None.
None == {}

Some(x) == {x}

IsNone(o) == o = {}

The(o) == CHOOSE x \in o : TRUE

(* ---------------------------- descriptors ----------------------------- *)

VecAMX == "VecAMX"

VecAVX512 == "VecAVX512"

VecAVX2 == "VecAVX2"

VecNEON == "VecNEON"

VecZVECTOR == "VecZVECTOR"

invalid_vec_isa == "InvalidVecISA"

Catalog == {VecAMX, VecAVX512, VecAVX2, VecNEON, VecZVECTOR}

AllISA == Catalog \cup {invalid_vec_isa}

supported_vec_isa_list_narrow_first == <<VecAMX, VecAVX2, VecAVX512, VecNEON>>

supported_vec_isa_list == <<VecAMX, VecAVX512, VecAVX2, VecNEON>>

\* str(isa).split(): the feature names the descriptor requires
str_split(isa) ==
    CASE isa = VecAMX -> {"avx512", "amx_tile"}
      [] isa = VecAVX512 -> {"avx512"}
      [] isa = VecAVX2 -> {"avx2"}
      [] isa = VecNEON -> {"asimd"}
      [] isa = VecZVECTOR -> {"zvector"}
      [] OTHER -> {"INVALID_VEC_ISA"}

bit_width(isa) ==
    CASE isa = VecAMX -> 512
      [] isa = VecAVX512 -> 512
      [] isa = VecAVX2 -> 256
      [] isa = VecNEON -> 256
      [] isa = VecZVECTOR -> 256
      [] OTHER -> 0

\* _arch_flags, a string modelled as its sequence of words
build_arch_flags(isa, is_windows) ==
    LET avx512 == IF is_windows THEN <<"/arch:AVX512">>
                  ELSE <<"-mavx512f", "-mavx512dq", "-mavx512vl", "-mavx512bw", "-mfma">>
    IN CASE isa = VecAVX512 -> avx512
         [] isa = VecAMX -> avx512 \o <<"-mamx-tile", "-mamx-bf16", "-mamx-int8">>
         [] isa = VecAVX2 -> IF is_windows THEN <<"/arch:AVX2">>
                             ELSE <<"-mavx2", "-mfma", "-mf16c">>
         [] isa = VecZVECTOR -> <<"-mvx", "-mzvector">>
         [] OTHER -> <<>>

\* the two probe programs
avx_code == "_avx_code"

amx_code == "_amx_code"

\* the check_build calls the module can make: <<descriptor, probe>>
Checks == {<<isa, avx_code>> : isa \in Catalog} \cup {<<VecAMX, amx_code>>}

(* ----------------------- compiler fingerprint ------------------------- *)

VersionName(v) == <<"11.4", "12.1", "13.2", "14.0">>[v]

\* what `cc -v` prints for installed version v: several lines
CompilerOutput(v) == <<"cc", "version", VersionName(v), "\n", "Target", "\r", "\n">>

ReplaceAll(s, old, new) == [i \in 1..Len(s) |-> IF s[i] = old THEN new ELSE s[i]]

\* out_v / out_version: output of `cc -v` / `cc --version`, None when the call fails
get_compiler_version_info(out_v, out_version) ==
    IF IsNone(out_v) /\ IsNone(out_version) THEN <<>>
    ELSE LET version_string == IF IsNone(out_v) THEN The(out_version) ELSE The(out_v)
         IN ReplaceAll(ReplaceAll(version_string, "\r", "_"), "\n", "_")

torch_version == <<"2.5.0">>

get_isa_dry_compile_fingerprint_no_compiler(compiler_info, isa_flags) ==
    isa_flags \o <<"=">> \o torch_version

get_isa_dry_compile_fingerprint(compiler_info, isa_flags) ==
    compiler_info \o <<"=">> \o isa_flags \o <<"=">> \o torch_version

\* codecache.write(code, "cpp", extra): the content-addressed key
write_key(code, extra) == <<code, extra>>

(* ------------------------------- state -------------------------------- *)

Procs == {"p1", "p2"}

VARIABLES
    host,          \* [platform, machine, processor]: sys.platform, platform.machine(), platform.processor()
    cpu_support,   \* names whose torch.cpu._is_cpu_support_* query is true
    cpuinfo,       \* /proc/cpuinfo: [readable, lines]
    config,        \* [vec_isa_ok, simdlen, is_fbcode]
    procs,         \* the processes that were started
    compiler,      \* version of the installed compiler
    src_files,     \* keys of the probe sources written to the cache
    so_files,      \* compiled artifacts: [key, built_by]
    lock_files,    \* keys whose lock file exists
    lock_held,     \* <<key, process>>: the file locks held
    pc,            \* per process: "idle", "write", "lock", "build", "load"
    fr,            \* per process: the frame of the call in progress
    memo,          \* per process: the lru_cache memos [bool_cache, amx_cache, valid_cache]
    rets,          \* per process: the outcomes of its finished top-level calls
    count,         \* per process: how often each step ran for each check
    nsteps,        \* per process: verification steps performed so far
    build_events   \* the invocations of CppBuilder.build

env_vars == <<host, cpu_support, cpuinfo, config, procs>>

fs_vars == <<src_files, so_files, lock_files, lock_held>>

proc_vars == <<pc, fr, memo, rets>>

hist_vars == <<count, nsteps, build_events>>

vars == <<env_vars, compiler, fs_vars, proc_vars, hist_vars>>

Steps == {"write", "lock", "lock_timeout", "build", "load", "load_ok", "init_amx", "passed"}

StepChecks == {<<s, c[1], c[2]>> : s \in Steps, c \in Checks}

NoKey == <<>>

NoFrame ==
    [op |-> "none", arg |-> invalid_vec_isa, idx |-> 0, isa_list |-> <<>>,
     isa |-> invalid_vec_isa, code |-> avx_code, key |-> NoKey, version |-> 0,
     steps0 |-> 0]

EmptyMemo == [bool_cache |-> {}, amx_cache |-> None, valid_cache |-> None]

_IS_WINDOWS == host.platform = "win32"

(* ------------------------ usability (__bool__) ------------------------ *)

\* result of running code up to its next check_build call or its return
Value(v, m) == [kind |-> "value", val |-> v, isa |-> invalid_vec_isa, code |-> avx_code, m |-> m]

Call(isa, code, m) == [kind |-> "call", val |-> FALSE, isa |-> isa, code |-> code, m |-> m]

CacheGet(cache, isa) == {e[2] : e \in {c \in cache : c[1] = isa}}

CachePut(m, isa, v) == [m EXCEPT !.bool_cache = @ \cup {<<isa, v>>}]

VecISA_bool_fbcode_first(m, isa) ==
    LET hit == CacheGet(m.bool_cache, isa)
    IN IF ~IsNone(hit) THEN Value(The(hit), m)
       ELSE IF config.is_fbcode THEN Value(TRUE, CachePut(m, isa, TRUE))
       ELSE IF ~IsNone(config.vec_isa_ok)
            THEN Value(The(config.vec_isa_ok), CachePut(m, isa, The(config.vec_isa_ok)))
       ELSE Call(isa, avx_code, m)

VecISA_bool_unchecked(m, isa) ==
    LET hit == CacheGet(m.bool_cache, isa)
    IN IF ~IsNone(hit) THEN Value(The(hit), m)
       ELSE IF ~IsNone(config.vec_isa_ok)
            THEN Value(The(config.vec_isa_ok), CachePut(m, isa, The(config.vec_isa_ok)))
       ELSE Value(TRUE, CachePut(m, isa, TRUE))

\* VecISA.__bool__, memoized per descriptor
VecISA_bool(m, isa) ==
    LET hit == CacheGet(m.bool_cache, isa)
    IN IF ~IsNone(hit) THEN Value(The(hit), m)
       ELSE IF ~IsNone(config.vec_isa_ok)
            THEN Value(The(config.vec_isa_ok), CachePut(m, isa, The(config.vec_isa_ok)))
       ELSE IF config.is_fbcode THEN Value(TRUE, CachePut(m, isa, TRUE))
       ELSE Call(isa, avx_code, m)

\* VecAMX.__bool__ once super().__bool__() has answered base (or needs check_build)
VecAMX_after_super(base) ==
    IF base.kind = "call" THEN base
    ELSE IF base.val
         THEN IF config.is_fbcode
              THEN Value(FALSE, [base.m EXCEPT !.amx_cache = Some(FALSE)])
              ELSE Call(VecAMX, amx_code, base.m)
    ELSE Value(FALSE, [base.m EXCEPT !.amx_cache = Some(FALSE)])

\* VecAMX.__bool__, memoized separately from the base method
VecAMX_bool(m) ==
    IF ~IsNone(m.amx_cache) THEN Value(The(m.amx_cache), m)
    ELSE VecAMX_after_super(VecISA_bool(m, VecAMX))

\* bool(isa) dispatched on the descriptor's class
isa_bool(m, isa) ==
    IF isa = invalid_vec_isa THEN Value(FALSE, m)
    ELSE IF isa = VecAMX THEN VecAMX_bool(m)
    ELSE VecISA_bool(m, isa)

AfterCheckBuild_forgetful(m, isa, code, v, init) ==
    IF code = avx_code THEN m
    ELSE [m EXCEPT !.amx_cache = Some(v /\ init)]

\* check_build(code) of isa returned v; init is what torch.cpu._init_amx() answers
AfterCheckBuild(m, isa, code, v, init) ==
    IF code = avx_code THEN CachePut(m, isa, v)
    ELSE [m EXCEPT !.amx_cache = Some(v /\ init)]

(* --------------------------- host detection --------------------------- *)

x86_isa_checker ==
    IF host.machine # "x86_64" /\ host.machine # "AMD64" THEN {}
    ELSE {n \in {"avx2", "avx512", "amx_tile"} : n \in cpu_support}

\* the scan of /proc/cpuinfo: one VecZVECTOR per features line naming vxe
RECURSIVE s390x_scan(_, _)
s390x_scan(lines, isa_list) ==
    IF lines = <<>> THEN isa_list
    ELSE s390x_scan(Tail(lines),
                    IF Head(lines) = "features_vxe" THEN Append(isa_list, VecZVECTOR)
                    ELSE isa_list)

\* the loop over supported_vec_isa_list on x86_64 / AMD64, from position idx
RECURSIVE x86_loop(_, _, _)
RECURSIVE x86_loop_body(_, _, _, _)
RECURSIVE x86_loop_append(_, _, _, _)
x86_loop(m, idx, isa_list) ==
    IF idx > Len(supported_vec_isa_list)
    THEN [kind |-> "value", list |-> isa_list, idx |-> idx, isa |-> invalid_vec_isa,
          code |-> avx_code, m |-> m]
    ELSE x86_loop_body(m, idx, isa_list, supported_vec_isa_list[idx])

\* `if all(flag in _cpu_supported_x86_isa ...) and isa: isa_list.append(isa)`
x86_loop_body(m, idx, isa_list, isa) ==
    IF ~(str_split(isa) \subseteq x86_isa_checker) THEN x86_loop(m, idx + 1, isa_list)
    ELSE x86_loop_append(idx, isa_list, isa, isa_bool(m, isa))

\* b is what bool(isa) answered: a value, or the check_build call it is waiting for
x86_loop_append(idx, isa_list, isa, b) ==
    IF b.kind = "call"
    THEN [kind |-> "call", list |-> isa_list, idx |-> idx, isa |-> b.isa,
          code |-> b.code, m |-> b.m]
    ELSE x86_loop(b.m, idx + 1, IF b.val THEN Append(isa_list, isa) ELSE isa_list)

\* valid_vec_isa_list() from its start: "raise", "value" or "call"
valid_vec_isa_list(m) ==
    LET first == IF host.platform = "darwin" /\ host.processor = "arm"
                 THEN <<VecNEON>> ELSE <<>>
        done(l) == [kind |-> "value", list |-> l, idx |-> 1, isa |-> invalid_vec_isa,
                    code |-> avx_code, m |-> m]
    IN IF host.platform \notin {"linux", "win32"} THEN done(first)
       ELSE IF host.machine = "s390x"
            THEN IF ~cpuinfo.readable THEN [done(first) EXCEPT !.kind = "raise"]
                 ELSE done(s390x_scan(cpuinfo.lines, first))
       ELSE IF host.machine = "aarch64" THEN done(Append(first, VecNEON))
       ELSE IF host.machine \in {"x86_64", "AMD64"} THEN x86_loop(m, 1, first)
       ELSE done(first)

(* ------------------------------ selection ----------------------------- *)

RECURSIVE first_of_width_or_last(_, _)
first_of_width_or_last(list, simdlen) ==
    IF list = <<>> THEN invalid_vec_isa
    ELSE IF simdlen = bit_width(Head(list)) \/ Len(list) = 1 THEN Head(list)
    ELSE first_of_width_or_last(Tail(list), simdlen)

\* `for isa in _valid_vec_isa_list: if config.cpp.simdlen == isa.bit_width(): return isa`
RECURSIVE first_of_width(_, _)
first_of_width(list, simdlen) ==
    IF list = <<>> THEN invalid_vec_isa
    ELSE IF simdlen = bit_width(Head(list)) THEN Head(list)
    ELSE first_of_width(Tail(list), simdlen)

\* pick_vec_isa() after valid_vec_isa_list() returned list
pick_from(list) ==
    IF list = <<>> THEN invalid_vec_isa
    ELSE IF IsNone(config.simdlen) THEN list[1]
    ELSE first_of_width(list, The(config.simdlen))

(* ------------------------- top-level call flow ------------------------ *)

\* the outcome of a finished top-level call; exc names the exception that left it
Ret(f, exc, isa, val, ns) ==
    [op |-> f.op, arg |-> f.arg, raised |-> exc # "", exc |-> exc, isa |-> isa, val |-> val,
     steps |-> ns - f.steps0]

Outcome(kind, m, isa, val, code, idx, list) ==
    [kind |-> kind, m |-> m, isa |-> isa, val |-> val, code |-> code, idx |-> idx,
     list |-> list]

\* bool(isa) called directly, up to its next check_build call or its return
bool_outcome(f, b) ==
    IF b.kind = "call" THEN Outcome("call", b.m, b.isa, FALSE, b.code, 0, <<>>)
    ELSE Outcome("return", b.m, f.arg, b.val, avx_code, 0, <<>>)

bool_run(m, f) == bool_outcome(f, isa_bool(m, f.arg))

\* valid_vec_isa_list() under lru_cache, entered or resumed in its loop, and the
\* rest of pick_vec_isa() once it has returned
\* v is what valid_vec_isa_list() came to; a returned list is memoized
pick_outcome(v) ==
    IF v.kind = "raise"
    THEN Outcome("raise", v.m, invalid_vec_isa, FALSE, avx_code, 0, <<>>)
    ELSE IF v.kind = "call"
    THEN Outcome("call", v.m, v.isa, FALSE, v.code, v.idx, v.list)
    ELSE Outcome("return", [v.m EXCEPT !.valid_cache = Some(v.list)],
                 pick_from(v.list), FALSE, avx_code, 0, <<>>)

pick_tail(m, f) ==
    IF ~IsNone(m.valid_cache)
    THEN Outcome("return", m, pick_from(The(m.valid_cache)), FALSE, avx_code, 0, <<>>)
    ELSE pick_outcome(IF f.idx = 0 THEN valid_vec_isa_list(m)
                      ELSE x86_loop(m, f.idx, f.isa_list))

pick_run_unconditional(m, f) == pick_tail(m, f)

\* pick_vec_isa(), up to its next check_build call, its return or its exception
pick_run(m, f) ==
    IF config.is_fbcode THEN Outcome("return", m, VecAVX2, FALSE, avx_code, 0, <<>>)
    ELSE pick_tail(m, f)

RunCall(m, f) == IF f.op = "bool" THEN bool_run(m, f) ELSE pick_run(m, f)

\* Process p goes on with the call of frame f: sets pc, fr, memo and rets.
Proceed(p, f, ns, r) ==
    /\ memo' = [memo EXCEPT ![p] = r.m]
    /\ IF r.kind = "call"
       THEN /\ pc' = [pc EXCEPT ![p] = "write"]
            /\ fr' = [fr EXCEPT ![p] = [f EXCEPT !.idx = r.idx, !.isa_list = r.list,
                                                 !.isa = r.isa, !.code = r.code,
                                                 !.key = NoKey, !.version = 0]]
            /\ rets' = rets
       ELSE /\ pc' = [pc EXCEPT ![p] = "idle"]
            /\ fr' = [fr EXCEPT ![p] = NoFrame]
            /\ rets' = [rets EXCEPT ![p] =
                           Append(@, Ret(f, IF r.kind = "raise" THEN "cpuinfo" ELSE "",
                                         r.isa, r.val, ns))]

Continue(p, m, f, ns) == Proceed(p, f, ns, RunCall(m, f))

\* An exception leaves check_build and the whole call: nothing is memoized.
Raise(p, exc, ns) ==
    /\ memo' = memo
    /\ pc' = [pc EXCEPT ![p] = "idle"]
    /\ fr' = [fr EXCEPT ![p] = NoFrame]
    /\ rets' = [rets EXCEPT ![p] = Append(@, Ret(fr[p], exc, invalid_vec_isa, FALSE, ns))]

IsPick(r) == r.op = "pick"

IsEval(r) == r.op = "bool"

Idle(p) == p \in procs /\ pc[p] = "idle"

\* a caller invokes pick_vec_isa()
pick_vec_isa(p) ==
    /\ Idle(p) /\ Len(SelectSeq(rets[p], IsPick)) < MaxPicks
    /\ Continue(p, memo[p], [NoFrame EXCEPT !.op = "pick", !.steps0 = nsteps[p]], nsteps[p])
    /\ UNCHANGED <<env_vars, compiler, fs_vars, hist_vars>>

\* a caller evaluates bool(isa) of a catalog descriptor
eval_bool(p) ==
    /\ Idle(p) /\ Len(SelectSeq(rets[p], IsEval)) < MaxEvals
    /\ \E isa \in Catalog :
         Continue(p, memo[p],
                  [NoFrame EXCEPT !.op = "bool", !.arg = isa, !.steps0 = nsteps[p]], nsteps[p])
    /\ UNCHANGED <<env_vars, compiler, fs_vars, hist_vars>>

(* ----------------------------- check_build ---------------------------- *)

Bump(p, step) ==
    /\ count' = [count EXCEPT ![p][<<step, fr[p].isa, fr[p].code>>] = @ + 1]
    /\ nsteps' = [nsteps EXCEPT ![p] = @ + 1]

\* the key check_build(code) of isa computes while compiler version v is installed
check_build_key(isa, code, v) ==
    write_key(code,
              get_isa_dry_compile_fingerprint(
                  get_compiler_version_info(Some(CompilerOutput(v)), None),
                  build_arch_flags(isa, _IS_WINDOWS)))

\* what check_build returns once it holds the lock: any exception of the build or
\* of the load subprocess is caught and gives False
check_build_result(build_ok, load_ok) == build_ok /\ load_ok

\* write(code, "cpp", extra=fingerprint): the probe source reaches the cache
cb_write(p) ==
    /\ p \in procs /\ pc[p] = "write"
    /\ LET key == check_build_key(fr[p].isa, fr[p].code, compiler)
       IN /\ src_files' = src_files \cup {key}
          /\ fr' = [fr EXCEPT ![p].key = key, ![p].version = compiler]
    /\ pc' = [pc EXCEPT ![p] = "lock"]
    /\ Bump(p, "write")
    /\ UNCHANGED <<env_vars, compiler, so_files, lock_files, lock_held, memo, rets, build_events>>

\* the compiler lookup or the write fails: outside the try block, the exception leaves
cb_write_raise(p) ==
    /\ p \in procs /\ pc[p] = "write"
    /\ Bump(p, "write")
    /\ Raise(p, "write", nsteps[p] + 1)
    /\ UNCHANGED <<env_vars, compiler, fs_vars, build_events>>

LockFree_unlocked(key) == TRUE

\* FileLock: the lock of a key is exclusive
LockFree(key) == \A q \in Procs : <<key, q>> \notin lock_held

\* `with lock:` acquires the file lock of the key
cb_lock(p) ==
    /\ p \in procs /\ pc[p] = "lock"
    /\ LockFree(fr[p].key)
    /\ lock_held' = lock_held \cup {<<fr[p].key, p>>}
    /\ lock_files' = lock_files \cup {fr[p].key}
    /\ pc' = [pc EXCEPT ![p] = "build"]
    /\ Bump(p, "lock")
    /\ UNCHANGED <<env_vars, compiler, src_files, so_files, fr, memo, rets, build_events>>

\* the lock stays held elsewhere for LOCK_TIMEOUT: filelock.Timeout leaves check_build
cb_lock_timeout(p) ==
    /\ p \in procs /\ pc[p] = "lock"
    /\ ~LockFree(fr[p].key)
    /\ Bump(p, "lock_timeout")
    /\ Raise(p, "lock", nsteps[p] + 1)
    /\ UNCHANGED <<env_vars, compiler, fs_vars, build_events>>

Release(p) == lock_held' = lock_held \ {<<fr[p].key, p>>}

\* check_build returns v to __bool__, which memoizes and goes on
Return(p, v, init, ns) ==
    Continue(p, AfterCheckBuild(memo[p], fr[p].isa, fr[p].code, v, init), fr[p], ns)

Waiting(key, p) ==
    {<<q, Len(rets[q])>> : q \in {r \in procs \ {p} : pc[r] = "lock" /\ fr[r].key = key}}

HasArtifact(key) == \E a \in so_files : a.key = key

\* os.path.isfile(output_path), and CppBuilder.build() when it is missing
cb_build(p) ==
    /\ p \in procs /\ pc[p] = "build"
    /\ IF HasArtifact(fr[p].key)
       THEN /\ pc' = [pc EXCEPT ![p] = "load"]
            /\ UNCHANGED <<so_files, lock_held, fr, memo, rets, hist_vars>>
       ELSE \E ok \in BOOLEAN :
            /\ build_events' = build_events \cup
                   {[proc |-> p, call |-> Len(rets[p]), key |-> fr[p].key, ok |-> ok,
                     waiting |-> Waiting(fr[p].key, p)]}
            /\ Bump(p, "build")
            /\ IF ok
               THEN /\ so_files' = so_files \cup {[key |-> fr[p].key, built_by |-> compiler]}
                    /\ pc' = [pc EXCEPT ![p] = "load"]
                    /\ UNCHANGED <<lock_held, fr, memo, rets>>
               ELSE /\ Release(p)
                    /\ Return(p, check_build_result(FALSE, FALSE), FALSE, nsteps[p] + 1)
                    /\ UNCHANGED so_files
    /\ UNCHANGED <<env_vars, compiler, src_files, lock_files>>

\* the subprocess loads the artifact; check_build returns; VecAMX goes on to _init_amx()
cb_load(p) ==
    /\ p \in procs /\ pc[p] = "load"
    /\ \E ok \in BOOLEAN :
       LET k == fr[p]
           v == check_build_result(TRUE, ok)
           amx == v /\ k.code = amx_code
       IN \E init \in (IF amx THEN BOOLEAN ELSE {FALSE}) :
            /\ count' = [count EXCEPT
                   ![p][<<"load", k.isa, k.code>>] = @ + 1,
                   ![p][<<"load_ok", k.isa, k.code>>] = @ + (IF ok THEN 1 ELSE 0),
                   ![p][<<"passed", k.isa, k.code>>] = @ + (IF v THEN 1 ELSE 0),
                   ![p][<<"init_amx", k.isa, k.code>>] = @ + (IF amx THEN 1 ELSE 0)]
            /\ nsteps' = [nsteps EXCEPT ![p] = @ + 1 + (IF amx THEN 1 ELSE 0)]
            /\ Release(p)
            /\ Return(p, v, init, nsteps[p] + 1 + (IF amx THEN 1 ELSE 0))
    /\ UNCHANGED <<env_vars, compiler, src_files, so_files, lock_files, build_events>>

\* a newer compiler is installed
compiler_upgrade ==
    /\ compiler < MaxVersion
    /\ compiler' = compiler + 1
    /\ UNCHANGED <<env_vars, fs_vars, proc_vars, hist_vars>>

(* ------------------------------- initial ------------------------------ *)

Host(pl, ma, pr) == [platform |-> pl, machine |-> ma, processor |-> pr]

Linux == Host("linux", "x86_64", "x86_64")

Windows == Host("win32", "AMD64", "AMD64")

IntelMac == Host("darwin", "x86_64", "i386")

OtherHosts ==
    {Host("linux", "aarch64", "aarch64"), Host("darwin", "arm64", "arm"),
     Host("linux", "riscv64", "riscv64")}

S390x == Host("linux", "s390x", "s390x")

CpuInfo(r, l) == [readable |-> r, lines |-> l]

CpuInfos ==
    {CpuInfo(FALSE, <<>>), CpuInfo(TRUE, <<>>), CpuInfo(TRUE, <<"garbage">>),
     CpuInfo(TRUE, <<"processor", "features_novxe">>),
     CpuInfo(TRUE, <<"processor", "features_vxe">>)}

Configs ==
    [vec_isa_ok : {None, Some(TRUE), Some(FALSE)},
     simdlen : {None, Some(256), Some(512), Some(999)},
     is_fbcode : BOOLEAN]

InitEnv ==
    \/ /\ host = Linux
       /\ cpu_support \in SUBSET {"avx2", "avx512", "amx_tile"}
       /\ cpuinfo = CpuInfo(TRUE, <<"processor">>)
    \/ /\ host = Windows
       /\ cpu_support \in SUBSET {"avx2", "avx512", "amx_tile"}
       /\ cpuinfo = CpuInfo(FALSE, <<>>)
    \/ /\ host = IntelMac
       /\ cpu_support = {"avx2"}
       /\ cpuinfo = CpuInfo(FALSE, <<>>)
    \/ /\ host \in OtherHosts
       /\ cpu_support = {}
       /\ cpuinfo = CpuInfo(TRUE, <<"processor">>)
    \/ /\ host = S390x
       /\ cpu_support = {}
       /\ cpuinfo \in CpuInfos

Rest ==
    /\ compiler = 1
    /\ src_files = {} /\ so_files = {} /\ lock_files = {} /\ lock_held = {}
    /\ pc = [p \in Procs |-> "idle"]
    /\ fr = [p \in Procs |-> NoFrame]
    /\ memo = [p \in Procs |-> EmptyMemo]
    /\ rets = [p \in Procs |-> <<>>]
    /\ count = [p \in Procs |-> [c \in StepChecks |-> 0]]
    /\ nsteps = [p \in Procs |-> 0]
    /\ build_events = {}

\* one process, on every host and under every configuration
Init == InitEnv /\ config \in Configs /\ procs = {"p1"} /\ Rest

Next ==
    \/ \E p \in Procs : pick_vec_isa(p)
    \/ \E p \in Procs : cb_write(p)
    \/ \E p \in Procs : cb_write_raise(p)
    \/ \E p \in Procs : cb_lock(p)
    \/ \E p \in Procs : cb_build(p)
    \/ \E p \in Procs : cb_load(p)

Spec == Init /\ [][Next]_vars

\* two workers start together on one Linux host with the default configuration,
\* share the cache directory, and the compiler may be upgraded meanwhile
InitWorkers ==
    /\ host = Linux
    /\ cpu_support = {"avx2"}
    /\ cpuinfo = CpuInfo(TRUE, <<"processor">>)
    /\ config = [vec_isa_ok |-> None, simdlen |-> None, is_fbcode |-> FALSE]
    /\ procs = Procs
    /\ Rest

NextWorkers ==
    \/ \E p \in Procs : pick_vec_isa(p)
    \/ \E p \in Procs : cb_write(p)
    \/ \E p \in Procs : cb_write_raise(p)
    \/ \E p \in Procs : cb_lock(p)
    \/ \E p \in Procs : cb_lock_timeout(p)
    \/ \E p \in Procs : cb_build(p)
    \/ \E p \in Procs : cb_load(p)
    \/ compiler_upgrade

SpecWorkers == InitWorkers /\ [][NextWorkers]_vars

\* one process evaluates bool(isa) of catalog descriptors under every configuration
InitBool ==
    /\ host \in {Linux, Windows}
    /\ cpu_support = {"avx2", "avx512", "amx_tile"}
    /\ cpuinfo = CpuInfo(TRUE, <<"processor">>)
    /\ config \in {c \in Configs : IsNone(c.simdlen)}
    /\ procs = {"p1"}
    /\ Rest

NextBool ==
    \/ \E p \in Procs : eval_bool(p)
    \/ \E p \in Procs : cb_write(p)
    \/ \E p \in Procs : cb_write_raise(p)
    \/ \E p \in Procs : cb_lock(p)
    \/ \E p \in Procs : cb_build(p)
    \/ \E p \in Procs : cb_load(p)

SpecBool == InitBool /\ [][NextBool]_vars

(* ------------------------------ properties ---------------------------- *)

Calls(p) == {rets[p][i] : i \in 1..Len(rets[p])}

\* the descriptors pick_vec_isa() returned to p
Picked(p) == {r \in Calls(p) : r.op = "pick" /\ ~r.raised}

Evals(p) == {r \in Calls(p) : r.op = "bool"}

N(p, step, isa, code) == count[p][<<step, isa, code>>]

IsX86 == host.machine \in {"x86_64", "AMD64"}

\* both probes of the descriptor were dry-compiled and loaded by p
Verified(p, isa) ==
    /\ isa \in Catalog
    /\ N(p, "passed", isa, avx_code) > 0
    /\ isa = VecAMX => N(p, "passed", VecAMX, amx_code) > 0

Justified(p, isa) ==
    Verified(p, isa) \/ config.vec_isa_ok = Some(TRUE) \/ config.is_fbcode

Concurrent(e1, e2) == e1.key = e2.key /\ <<e2.proc, e2.call>> \in e1.waiting

\* C2, as stated: of two processes running check_build concurrently for one key
\* at most one invokes CppBuilder.build.
C2_Original ==
    \A e1 \in build_events : \A e2 \in build_events : ~Concurrent(e1, e2)

InLock(p) == pc[p] \in {"build", "load"}

\* C2, amended: the file lock serialises the two, so their builds never overlap;
\* at most one build of a key succeeds, and once a build has produced the artifact
\* the process that was waiting for the lock finds it and skips the build.  Both
\* invoke the build only when the first build failed and left no artifact.
C2_Amended ==
    /\ \A p \in Procs : \A q \in Procs \ {p} :
           ~(InLock(p) /\ InLock(q) /\ fr[p].key = fr[q].key)
    /\ \A e1 \in build_events : \A e2 \in build_events :
           /\ (e1.key = e2.key /\ e1.ok /\ e2.ok) => e1 = e2
           /\ Concurrent(e1, e2) => ~e1.ok

C2_Witness ==
    \E e \in build_events : \E w \in e.waiting :
        /\ e.ok
        /\ Len(rets[w[1]]) > w[2]
        /\ ~rets[w[1]][w[2] + 1].raised
        /\ \A c \in Checks : N(w[1], "build", c[1], c[2]) = 0
        /\ N(w[1], "passed", VecAVX2, avx_code) = 1

\* C3, as stated: check_build never raises to its caller: no call ends with the
\* exception of a failed write or of a lock timeout.
C3_Original ==
    \A p \in Procs : \A r \in Calls(p) : r.exc \notin {"write", "lock"}

KeysOf(isa, code) == {check_build_key(isa, code, v) : v \in 1..MaxVersion}

InCheck(p, isa, code) == pc[p] # "idle" /\ fr[p].isa = isa /\ fr[p].code = code

\* What the code does about C3: once check_build holds the lock it returns a
\* boolean: False when the build or the subprocess load fails, True only when the
\* artifact exists and the load exited cleanly.  A failure of writing the probe
\* source or of acquiring the lock (a timeout) is outside the try block and
\* propagates to the caller.
C3_AsCoded ==
    \A p \in Procs :
        /\ \A isa \in Catalog :
             N(p, "lock_timeout", isa, avx_code) > 0 => \E r \in Calls(p) : r.exc = "lock"
        /\ \A isa \in Catalog :
             /\ N(p, "passed", isa, avx_code) <= N(p, "load_ok", isa, avx_code)
             /\ N(p, "passed", isa, avx_code) > 0 =>
                    \E a \in so_files : a.key \in KeysOf(isa, avx_code)
             /\ (N(p, "lock", isa, avx_code) > 0 /\ ~InCheck(p, isa, avx_code)) =>
                    \E v \in BOOLEAN :
                        /\ <<isa, v>> \in memo[p].bool_cache
                        /\ v <=> N(p, "passed", isa, avx_code) > 0

C3_TimeoutThenRetry ==
    \E p \in Procs : \E q \in Procs \ {p} :
        /\ \E r \in Calls(p) : r.exc = "lock"
        /\ <<VecAVX2, TRUE>> \in memo[p].bool_cache
        /\ <<VecAVX2, FALSE>> \in memo[q].bool_cache
        /\ N(q, "build", VecAVX2, avx_code) = 1

Forced(r) == ~r.raised /\ r.steps = 0 /\ r.val = The(config.vec_isa_ok)

\* C4, as stated: with vec_isa_ok set, bool(isa) of every catalog descriptor
\* performs no verification step and equals the configured value.
C4_Original ==
    \A p \in Procs : \A r \in Evals(p) :
        ~IsNone(config.vec_isa_ok) => Forced(r)

\* C4, amended: the statement holds for every descriptor but VecAMX, and for
\* VecAMX when vec_isa_ok is False.  With vec_isa_ok True, VecAMX skips only the
\* base probe: it is unusable under is_fbcode(), and otherwise still runs
\* check_build of its own probe and torch.cpu._init_amx(), and is usable only
\* when both succeed.
C4_Amended ==
    \A p \in Procs : \A r \in Evals(p) :
        ~IsNone(config.vec_isa_ok) =>
            IF r.arg # VecAMX \/ config.vec_isa_ok = Some(FALSE) THEN Forced(r)
            ELSE /\ \A s \in Steps : N(p, s, VecAMX, avx_code) = 0
                 /\ config.is_fbcode => ~r.raised /\ r.steps = 0 /\ ~r.val
                 /\ r.val => /\ N(p, "passed", VecAMX, amx_code) > 0
                             /\ N(p, "init_amx", VecAMX, amx_code) > 0

C4_Witness ==
    \E p \in Procs : \E r \in Evals(p) :
        /\ config.vec_isa_ok = Some(FALSE) /\ config.is_fbcode
        /\ r.arg = VecAVX512 /\ Forced(r) /\ ~r.val

\* C5: under is_fbcode() every pick_vec_isa() returns VecAVX2, whatever the host,
\* cpp.simdlen and cpp.vec_isa_ok, and performs no dry compile: no probe source,
\* no lock file, no build, no load.
C5_FbcodeBypass ==
    config.is_fbcode =>
        /\ \A p \in Procs : \A r \in Calls(p) :
               r.op = "pick" => ~r.raised /\ r.isa = VecAVX2 /\ r.steps = 0
        /\ \A p \in Procs : nsteps[p] = 0 /\ pc[p] = "idle"
        /\ src_files = {} /\ lock_files = {} /\ so_files = {} /\ build_events = {}

C5_Witness ==
    /\ config.is_fbcode
    /\ config.simdlen = Some(999) /\ config.vec_isa_ok = Some(FALSE)
    /\ host = S390x /\ ~cpuinfo.readable
    /\ \E p \in Procs : Len(rets[p]) >= 2 /\ rets[p][2].isa = VecAVX2

Priority == <<VecAMX, VecAVX512, VecAVX2>>

\* the usability p has memoized for the descriptor
Usable(p, isa) ==
    IF isa = VecAMX THEN memo[p].amx_cache = Some(TRUE)
    ELSE <<isa, TRUE>> \in memo[p].bool_cache

Eligible(p) ==
    {i \in 1..Len(Priority) : str_split(Priority[i]) \subseteq cpu_support /\ Usable(p, Priority[i])}

FirstEligible(p) ==
    IF Eligible(p) = {} THEN invalid_vec_isa
    ELSE Priority[CHOOSE i \in Eligible(p) : \A j \in Eligible(p) : i <= j]

AutoX86 == IsNone(config.simdlen) /\ ~config.is_fbcode /\ IsX86

\* VecAMX's own dry compile or the runtime enable call ran and failed
AmxExtraFailed(p) ==
    N(p, "write", VecAMX, amx_code) > 0 /\ memo[p].amx_cache = Some(FALSE)

\* C6, as stated (its last part): with avx512 and amx_tile reported and AMX's
\* extra check failing, pick_vec_isa() returns VecAVX512.
C6_Original ==
    \A p \in Procs : \A r \in Picked(p) :
        (AutoX86 /\ {"avx512", "amx_tile"} \subseteq cpu_support /\ AmxExtraFailed(p)) =>
            r.isa = VecAVX512

\* C6, amended: with no simdlen and outside fbcode, on x86_64 / AMD64
\* pick_vec_isa() returns the first of AMX, AVX512, AVX2 whose feature names are
\* all reported and whose usability check passes (the sentinel when there is
\* none); so when avx512 and amx_tile are reported, AMX's extra check fails and
\* AVX512's own dry compile passes, the result is VecAVX512.
C6_Amended ==
    \A p \in Procs : \A r \in Picked(p) :
        AutoX86 =>
            /\ r.isa = FirstEligible(p)
            /\ ({"avx512", "amx_tile"} \subseteq cpu_support /\ AmxExtraFailed(p)
                    /\ Usable(p, VecAVX512)) => r.isa = VecAVX512

C6_Witness ==
    \E p \in Procs : \E r \in Picked(p) :
        /\ AutoX86 /\ cpu_support = {"avx2", "avx512", "amx_tile"}
        /\ AmxExtraFailed(p) /\ Usable(p, VecAVX512) /\ Usable(p, VecAVX2)
        /\ r.isa = VecAVX512

FirstMatch(list, n) ==
    LET I == {i \in 1..Len(list) : bit_width(list[i]) = n}
    IN IF I = {} THEN invalid_vec_isa ELSE list[CHOOSE i \in I : \A j \in I : i <= j]

WidthHonoured(p, r) ==
    LET n == The(config.simdlen)
    IN /\ r.isa # invalid_vec_isa => bit_width(r.isa) = n
       /\ n = 999 => r.isa = invalid_vec_isa
       /\ ~IsNone(memo[p].valid_cache) => r.isa = FirstMatch(The(memo[p].valid_cache), n)

\* C7, as stated: whenever cpp.simdlen is set, pick_vec_isa() returns the first
\* element of the valid list of that bit width, and the sentinel when there is none.
C7_Original ==
    \A p \in Procs : \A r \in Picked(p) :
        ~IsNone(config.simdlen) => WidthHonoured(p, r)

\* C7, amended: the statement holds outside fbcode; under is_fbcode()
\* pick_vec_isa() returns VecAVX2 whatever cpp.simdlen asks for.
C7_Amended ==
    \A p \in Procs : \A r \in Picked(p) :
        ~IsNone(config.simdlen) =>
            IF config.is_fbcode THEN r.isa = VecAVX2
            ELSE ~IsNone(memo[p].valid_cache) /\ WidthHonoured(p, r)

C7_Witness ==
    \E p \in Procs : \E r \in Picked(p) :
        /\ config.simdlen = Some(256) /\ ~config.is_fbcode
        /\ memo[p].valid_cache = Some(<<VecAVX512, VecAVX2>>)
        /\ r.isa = VecAVX2

\* C8: in one process every pick_vec_isa() returns the descriptor the first one
\* returned; the lock, the build and the load of each probe of each descriptor
\* run at most once; a call after one that returned performs no verification step.
C8_Memoized ==
    \A p \in Procs :
        /\ \A r1 \in Picked(p) : \A r2 \in Picked(p) : r1.isa = r2.isa
        /\ \A c \in Checks : \A s \in {"lock", "build", "load"} : N(p, s, c[1], c[2]) <= 1
        /\ \A i \in 1..Len(rets[p]) : \A j \in 1..Len(rets[p]) :
               (i < j /\ rets[p][i].op = "pick" /\ ~rets[p][i].raised /\ rets[p][j].op = "pick")
                   => ~rets[p][j].raised /\ rets[p][j].steps = 0

C8_Witness ==
    \E p \in Procs :
        /\ Len(rets[p]) >= 2
        /\ rets[p][1].isa = VecAVX512 /\ rets[p][1].steps > 0
        /\ rets[p][2].isa = VecAVX512 /\ rets[p][2].steps = 0
        /\ N(p, "lock", VecAVX512, avx_code) = 1
        /\ N(p, "lock", VecAMX, amx_code) = 1

\* C9: a check_build whose fingerprint was taken under compiler version V works
\* under a key no other version shares, so the artifact it finds or loads was not
\* built by an older compiler: after an upgrade the descriptor is built again.
C9_FingerprintSensitive ==
    /\ \A c \in Checks : \A v1 \in 1..MaxVersion : \A v2 \in 1..MaxVersion :
           v1 # v2 => check_build_key(c[1], c[2], v1) # check_build_key(c[1], c[2], v2)
    /\ \A p \in Procs : InLock(p) =>
           \A a \in so_files : a.key = fr[p].key => a.built_by >= fr[p].version

C9_Witness ==
    /\ compiler = 2
    /\ [key |-> check_build_key(VecAVX2, avx_code, 1), built_by |-> 1] \in so_files
    /\ [key |-> check_build_key(VecAVX2, avx_code, 2), built_by |-> 2] \in so_files
    /\ \E p \in Procs : fr[p].version = 2 /\ pc[p] = "load"
                        /\ N(p, "build", VecAVX2, avx_code) = 1

NamesVxe == \E i \in 1..Len(cpuinfo.lines) : cpuinfo.lines[i] = "features_vxe"

OnS390x == host = S390x /\ ~config.is_fbcode

\* C10, as stated: on s390x a missing, unreadable or malformed /proc/cpuinfo
\* raises no error and pick_vec_isa() returns the sentinel.
C10_Original ==
    (OnS390x /\ (~cpuinfo.readable \/ ~NamesVxe)) =>
        \A p \in Procs : \A r \in Calls(p) : ~r.raised /\ r.isa = invalid_vec_isa

\* What the code does about C10: on s390x outside fbcode a readable
\* /proc/cpuinfo with no features line naming vxe gives the empty list and the
\* sentinel; a missing or unreadable file makes open() raise, and the error leaves
\* valid_vec_isa_list() and pick_vec_isa().
C10_AsCoded ==
    OnS390x =>
        \A p \in Procs : \A r \in Calls(p) :
            /\ (cpuinfo.readable /\ ~NamesVxe) =>
                   /\ ~r.raised /\ r.isa = invalid_vec_isa
                   /\ memo[p].valid_cache = Some(<<>>)
            /\ ~cpuinfo.readable => r.raised /\ r.exc = "cpuinfo"

C10_MalformedGivesSentinel ==
    /\ OnS390x /\ cpuinfo = CpuInfo(TRUE, <<"processor", "features_novxe">>)
    /\ \E p \in Procs : \E r \in Picked(p) : r.isa = invalid_vec_isa

====
